---- MODULE Spec2Model ----
(***************************************************************************)
(* Model of src/main.py, the backup/restore gateway of the Personal        *)
(* Finance Manager: three MySQL tables (transactions, budgets, categories) *)
(* and the handlers /backup, /restore and /health.                         *)
(*                                                                         *)
(* The storage engine is modelled as MySQL does what the handlers ask of   *)
(* it, with its defaults (InnoDB, autocommit off in mysql.connector,       *)
(* strict sql_mode):                                                       *)
(*   - REPLACE INTO deletes every row that collides with the new row on    *)
(*     the PRIMARY KEY or on a UNIQUE index, then inserts the new row;     *)
(*   - INSERT ... ON DUPLICATE KEY UPDATE updates the row found by the     *)
(*     first colliding index (PRIMARY before the UNIQUE index) and inserts *)
(*     when nothing collides;                                              *)
(*   - a value with more than two fractional digits is rounded into        *)
(*     DECIMAL(10, 2); an out-of-range number or an over-long string       *)
(*     raises an Error;                                                    *)
(*   - statements of one connection form one transaction until commit();   *)
(*     rollback() or a lost connection discards them.                      *)
(***************************************************************************)
EXTENDS Integers, Sequences, FiniteSets, TLC

(***************************************************************************)
(* Bounds of the model.                                                    *)
(***************************************************************************)
\* longest transactions sequence of a snapshot (workload "T")
MaxTrans == 2
\* longest budgets sequence of a snapshot (workload "B")
MaxBudgets == 2
\* longest categories sequence of a snapshot (workload "C")
MaxCats == 3
\* longest sequence of each kind in a mixed snapshot (workload "M")
MaxMixed == 2
\* committed Backup calls of one snapshot in a row
MaxCalls == 2
\* longest sequence of a snapshot submitted on concurrent connections
\* (workloads "XT", "XB" and "XC")
MaxConcurrent == 2

(***************************************************************************)
(* Schema constants (init_database).                                       *)
(***************************************************************************)
IdWidth == 36
CategoryWidth == 100
TypeWidth == 10
TimestampWidth == 20
IconWidth == 50
\* DECIMAL(10, 2): ten digits, two of them fractional
DecimalDigits == 10
DecimalScale == 2

\* 10^n
RECURSIVE Pow10(_)
Pow10(n) == IF n = 0 THEN 1 ELSE 10 * Pow10(n - 1)

(***************************************************************************)
(* Numbers.  A submitted amount is a decimal literal with three fractional *)
(* digits [w |-> whole part, f |-> thousandths]; a stored DECIMAL(10, 2)   *)
(* is [w |-> whole part, c |-> hundredths].                                *)
(***************************************************************************)
\* the rounding MySQL applies storing an exact literal into DECIMAL(10, 2)
ToDecimal2Truncating(a) == [w |-> a.w, c |-> a.f \div 10]

ToDecimal2(a) ==
  LET c == (a.f + 5) \div 10
  IN  IF c = Pow10(DecimalScale) THEN [w |-> a.w + 1, c |-> 0]
                                 ELSE [w |-> a.w, c |-> c]

\* strict mode: "Out of range value for column"
DecimalOutOfRange(a) == ToDecimal2(a).w >= Pow10(DecimalDigits - DecimalScale)

\* the stored number denotes the submitted one
SameNumber(a, d) == a.w = d.w /\ a.f = 10 * d.c

(***************************************************************************)
(* Dates.  The textual form YYYY-MM-DD is the tuple of its eight digits    *)
(* (the hyphens sit at fixed places); ORDER BY date compares the strings   *)
(* character by character.                                                 *)
(***************************************************************************)
StrLess(a, b) ==
  \E i \in 1..Len(a) :
     /\ i <= Len(b)
     /\ a[i] < b[i]
     /\ \A j \in 1..(i - 1) : a[j] = b[j]

\* the calendar day a date text denotes, as the number YYYYMMDD
DayNumber(d) ==
  ((d[1] * 1000 + d[2] * 100 + d[3] * 10 + d[4]) * 100 + d[5] * 10 + d[6]) * 100
    + d[7] * 10 + d[8]

(***************************************************************************)
(* Records submitted to /backup (the pydantic models) and the bounded      *)
(* input pools of each workload.                                           *)
(***************************************************************************)
Dates == { <<2,0,2,3,1,2,3,1>>, <<2,0,2,4,0,1,0,1>>, <<2,0,2,4,0,3,1,5>> }

Transaction(ids, dates, amounts) ==
  [ id : ids, date : dates, category : {"Food"}, type : {"expense"},
    amount : amounts, description : {""},
    created_at : {"2024-01-01T00:00:00"}, updated_at : {"2024-01-01T00:00:00"},
    synced : {1} ]

Budget(ids, cats, limits) ==
  [ id : ids, category : cats, monthly_limit : limits,
    created_at : {"2024-01-01T00:00:00"}, updated_at : {"2024-01-01T00:00:00"} ]

\* a client creates a category once: its type and created_at go with its id
CategoryOf(id, name, icon) ==
  [ id |-> id, name |-> name, icon |-> icon,
    type |-> IF id = "c1" THEN "expense" ELSE "income",
    created_at |-> IF id = "c1" THEN "2024-01-01T00:00:00" ELSE "2024-02-02T00:00:00" ]

Category(ids, names, icons) ==
  { CategoryOf(i, n, ic) : i \in ids, n \in names, ic \in icons }

BackupData(ts, bs, cs) == [ transactions |-> ts, budgets |-> bs, categories |-> cs ]

SeqsUpTo(pool, n) == UNION { [1..k -> pool] : k \in 0..n }

Workloads == {"T", "B", "C", "M"}

\* a type of eleven characters: one more than VARCHAR(10) holds
LongTypeCategory ==
  [ id |-> "c2", name |-> "Rent", icon |-> "home", type |-> "expenditure",
    created_at |-> "2024-02-02T00:00:00" ]

Snapshots(w) ==
  CASE w = "T" ->
         { BackupData(ts, << >>, << >>) :
             ts \in SeqsUpTo(Transaction({"t1", "t2"}, Dates,
                                         {[w |-> 12, f |-> 500], [w |-> 12, f |-> 505]}),
                             MaxTrans) }
    [] w = "B" ->
         { BackupData(<< >>, bs, << >>) :
             bs \in SeqsUpTo(Budget({"b1", "b2"}, {"Food", "Rent"},
                                    {[w |-> 300, f |-> 0], [w |-> 300, f |-> 5]}),
                             MaxBudgets) }
    [] w = "C" ->
         { BackupData(<< >>, << >>, cs) :
             cs \in SeqsUpTo(Category({"c1", "c2"}, {"Food", "Rent"}, {"burger", "pizza"}),
                             MaxCats) }
    [] w = "M" ->
         { BackupData(ts, bs, cs) :
             ts \in SeqsUpTo(Transaction({"t1"}, {<<2,0,2,4,0,1,0,1>>},
                                         {[w |-> 12, f |-> 500],
                                          [w |-> 100000000, f |-> 0]}),
                             MaxMixed),
             bs \in SeqsUpTo(Budget({"b1", "b2"}, {"Food"}, {[w |-> 300, f |-> 0]}),
                             MaxMixed),
             cs \in SeqsUpTo({CategoryOf("c1", "Food", "burger"), LongTypeCategory},
                             MaxMixed) }
    [] w = "XT" ->
         { BackupData(ts, << >>, << >>) :
             ts \in SeqsUpTo(Transaction({"t1", "t2"}, {<<2,0,2,4,0,1,0,1>>}, {[w |-> 12, f |-> 500]}),
                             MaxConcurrent) }
    [] w = "XB" ->
         { BackupData(<< >>, bs, << >>) :
             bs \in SeqsUpTo(Budget({"b1"}, {"Food"}, {[w |-> 300, f |-> 0]})
                               \cup Budget({"b2"}, {"Food", "Rent"}, {[w |-> 300, f |-> 0]}),
                             MaxConcurrent) }
    [] w = "XC" ->
         { BackupData(<< >>, << >>, cs) :
             cs \in SeqsUpTo(Category({"c1"}, {"Food"}, {"burger"})
                               \cup Category({"c2"}, {"Food", "Rent"}, {"burger"}),
                             MaxConcurrent) }

(***************************************************************************)
(* Storage: the three tables as sets of rows.                              *)
(***************************************************************************)
EmptyDb == [ transactions |-> {}, budgets |-> {}, categories |-> {}, inserted |-> {} ]

TransactionRow(t) == [ t EXCEPT !.amount = ToDecimal2(t.amount) ]

BudgetRow(b) == [ b EXCEPT !.monthly_limit = ToDecimal2(b.monthly_limit) ]

\* strict mode: "Data too long for column" / "Out of range value for column"
TransactionRaises(t) ==
  \/ Len(t.id) > IdWidth
  \/ Len(t.category) > CategoryWidth
  \/ Len(t.type) > TypeWidth
  \/ Len(t.created_at) > TimestampWidth
  \/ Len(t.updated_at) > TimestampWidth
  \/ DecimalOutOfRange(t.amount)

BudgetRaises(b) ==
  \/ Len(b.id) > IdWidth
  \/ Len(b.category) > CategoryWidth
  \/ Len(b.created_at) > TimestampWidth
  \/ Len(b.updated_at) > TimestampWidth
  \/ DecimalOutOfRange(b.monthly_limit)

CategoryRaises(c) ==
  \/ Len(c.id) > IdWidth
  \/ Len(c.name) > CategoryWidth
  \/ Len(c.type) > TypeWidth
  \/ Len(c.icon) > IconWidth
  \/ Len(c.created_at) > TimestampWidth

\* REPLACE INTO that only honours the PRIMARY KEY
ReplaceIntoByIdOnly(rows, row, keys) == { x \in rows : x.id # row.id } \cup {row}

\* REPLACE INTO that never deletes: the new row is added beside the old ones
ReplaceIntoKeeping(rows, row, keys) == rows \cup {row}

\* a backup that takes the snapshot for the whole table: the old rows go
ReplaceTable(rows, row, keys) == {row}

\* REPLACE INTO: delete the rows colliding on any of the table's keys, insert
ReplaceInto(rows, row, keys) ==
  { x \in rows : \A k \in keys : x[k] # row[k] } \cup {row}

\* ON DUPLICATE KEY UPDATE that looks at the UNIQUE name index first
InsertOnDuplicateKeyNameFirst(rows, c) ==
  IF \E x \in rows : x.name = c.name
  THEN { IF x.name = c.name THEN [x EXCEPT !.icon = c.icon] ELSE x : x \in rows }
  ELSE IF \E x \in rows : x.id = c.id
  THEN { IF x.id = c.id THEN [x EXCEPT !.icon = c.icon] ELSE x : x \in rows }
  ELSE rows \cup {c}

\* INSERT INTO categories ... ON DUPLICATE KEY UPDATE icon = VALUES(icon)
InsertOnDuplicateKeyUpdateIcon(rows, c) ==
  IF \E x \in rows : x.id = c.id
  THEN { IF x.id = c.id THEN [x EXCEPT !.icon = c.icon] ELSE x : x \in rows }
  ELSE IF \E x \in rows : x.name = c.name
  THEN { IF x.name = c.name THEN [x EXCEPT !.icon = c.icon] ELSE x : x \in rows }
  ELSE rows \cup {c}

\* history: what an INSERT INTO categories that collides with no key creates
Inserted(rows, c) ==
  IF \E x \in rows : x.id = c.id \/ x.name = c.name
  THEN {}
  ELSE { [ id |-> c.id, name |-> c.name, type |-> c.type, created_at |-> c.created_at ] }

(***************************************************************************)
(* The statements of one /backup call, in the order the handler issues     *)
(* them: transactions, then budgets, then categories.                      *)
(***************************************************************************)
Statements(data) ==
  [ i \in 1..Len(data.transactions) |->
      [ table |-> "transactions", rec |-> data.transactions[i] ] ]
  \o [ i \in 1..Len(data.budgets) |->
      [ table |-> "budgets", rec |-> data.budgets[i] ] ]
  \o [ i \in 1..Len(data.categories) |->
      [ table |-> "categories", rec |-> data.categories[i] ] ]

Raises(st) ==
  CASE st.table = "transactions" -> TransactionRaises(st.rec)
    [] st.table = "budgets" -> BudgetRaises(st.rec)
    [] st.table = "categories" -> CategoryRaises(st.rec)

\* an upsert of budgets that adds the submitted limit to the stored one
ExecuteAccumulating(db, st) ==
  CASE st.table = "transactions" ->
         [ db EXCEPT !.transactions = ReplaceInto(@, TransactionRow(st.rec), {"id"}) ]
    [] st.table = "budgets" ->
         LET new == BudgetRow(st.rec)
             old == { x \in db.budgets : x.id = new.id }
             sum == IF old = {} THEN new
                    ELSE [ new EXCEPT !.monthly_limit.w =
                                        @ + (CHOOSE x \in old : TRUE).monthly_limit.w ]
         IN  [ db EXCEPT !.budgets = ReplaceInto(@, sum, {"id", "category"}) ]
    [] st.table = "categories" ->
         [ db EXCEPT !.categories = InsertOnDuplicateKeyUpdateIcon(@, st.rec),
                     !.inserted = @ \cup Inserted(db.categories, st.rec) ]

Execute(db, st) ==
  CASE st.table = "transactions" ->
         [ db EXCEPT !.transactions = ReplaceInto(@, TransactionRow(st.rec), {"id"}) ]
    [] st.table = "budgets" ->
         [ db EXCEPT !.budgets = ReplaceInto(@, BudgetRow(st.rec), {"id", "category"}) ]
    [] st.table = "categories" ->
         [ db EXCEPT !.categories = InsertOnDuplicateKeyUpdateIcon(@, st.rec),
                     !.inserted = @ \cup Inserted(db.categories, st.rec) ]

\* the connection's view after the first k statements
RECURSIVE ExecuteAll(_, _, _)
ExecuteAll(db, stmts, k) ==
  IF k = 0 THEN db ELSE Execute(ExecuteAll(db, stmts, k - 1), stmts[k])

\* the first statement the storage rejects, Len + 2 (no fail point) when there is none
FirstRaising(stmts) ==
  LET bad == { i \in 1..Len(stmts) : Raises(stmts[i]) }
  IN  IF bad = {} THEN Len(stmts) + 2
      ELSE CHOOSE i \in bad : \A j \in bad : i <= j

\* a connection in autocommit mode: every statement is durable at once
RollbackNothing(committed, work) == work

\* connection.rollback(): the connection's uncommitted work is discarded
Rollback(committed, work) == committed

\* connection.commit(): the connection's work becomes the committed storage
Commit(committed, work) == work

(***************************************************************************)
(* get_db_connection under the four situations of the environment.         *)
(***************************************************************************)
Envs == {"connected", "unreachable", "missing_credentials", "not_connected"}

GetDbConnection(env) ==
  CASE env = "missing_credentials" ->
         [ raised |-> "HTTPException", detail |-> "Missing required environment variables" ]
    [] env = "unreachable" ->
         [ raised |-> "HTTPException", detail |-> "Database connection failed" ]
    [] env = "not_connected" ->
         [ raised |-> "none", connection |-> "None" ]
    [] env = "connected" ->
         [ raised |-> "none", connection |-> "connection" ]

\* what the framework sends for an exception that leaves a handler
ErrorResponse(op, detail) == [ op |-> op, status |-> 500, detail |-> detail ]

\* where a /backup call is cut short by the storage: statement i (1..n), the
\* commit (n + 1), or nowhere (n + 2)
FailPoints(data) == 1..(Len(Statements(data)) + 2)

\* the situations of one /backup call: without a connection no statement runs
BackupSituations(data) ==
  { <<env, failAt>> \in Envs \X FailPoints(data) : env = "connected" \/ failAt = 1 }

\* the situations of one /restore call
RestoreSituations == { <<env, fails>> \in Envs \X BOOLEAN : env = "connected" \/ ~fails }

\* /backup: the committed storage and the response of one call
BackupHandler(db, data, env, failAt) ==
  LET conn  == GetDbConnection(env)
      stmts == Statements(data)
      n     == Len(stmts)
      bad   == FirstRaising(stmts)
      stop  == IF bad < failAt THEN bad ELSE failAt
  IN  IF conn.raised # "none"
      THEN [ db |-> db, response |-> ErrorResponse("backup", conn.detail) ]
      ELSE IF conn.connection = "None"
      THEN \* None.cursor(): an AttributeError outside the try block
           [ db |-> db, response |-> ErrorResponse("backup", "Internal Server Error") ]
      ELSE IF stop <= n + 1
      THEN [ db |-> Rollback(db, ExecuteAll(db, stmts, IF stop <= n THEN stop - 1 ELSE n)),
             response |-> ErrorResponse("backup", "Backup failed") ]
      ELSE [ db |-> Commit(db, ExecuteAll(db, stmts, n)),
             response |->
               [ op |-> "backup", status |-> 200, detail |-> "success",
                 transactions_backed_up |-> Len(data.transactions),
                 budgets_backed_up |-> Len(data.budgets),
                 categories_backed_up |-> Len(data.categories) ] ]

(***************************************************************************)
(* /restore: SELECT * ... ORDER BY date DESC, SELECT * of the other two.   *)
(***************************************************************************)
\* the sequences that list every row of a table exactly once
Listings(rows) ==
  { s \in [1..Cardinality(rows) -> rows] :
      \A i, j \in 1..Cardinality(rows) : i # j => s[i] # s[j] }

\* ORDER BY date ASC
OrderedByDateAsc(s) ==
  \A i, j \in 1..Len(s) : i < j => ~StrLess(s[j].date, s[i].date)

\* ORDER BY date DESC: no row stands before a row with a greater date text
OrderedByDateDesc(s) ==
  \A i, j \in 1..Len(s) : i < j => ~StrLess(s[i].date, s[j].date)

\* cursor.fetchall() of a SELECT without ORDER BY: every row, in storage order
FetchAll(rows) == Listings(rows)

FetchTransactions(rows) == { s \in Listings(rows) : OrderedByDateDesc(s) }

RestoreResults(db) ==
  { [ op |-> "restore", status |-> 200, detail |-> "success",
      transactions |-> ts, budgets |-> bs, categories |-> cs ] :
      ts \in FetchTransactions(db.transactions),
      bs \in FetchAll(db.budgets),
      cs \in FetchAll(db.categories) }

\* /restore: the possible responses of one call
RestoreHandler(db, env, fails) ==
  LET conn == GetDbConnection(env)
  IN  IF conn.raised # "none"
      THEN { ErrorResponse("restore", conn.detail) }
      ELSE IF conn.connection = "None"
      THEN { ErrorResponse("restore", "Internal Server Error") }
      ELSE IF fails
      THEN { ErrorResponse("restore", "Restore failed") }
      ELSE RestoreResults(db)

(***************************************************************************)
(* /health                                                                 *)
(***************************************************************************)
\* a health check that reports healthy whenever get_db_connection returns
HealthCheckTrusting(env) ==
  LET conn == GetDbConnection(env)
  IN  IF conn.raised # "none"
      THEN [ op |-> "health", status |-> 200, detail |-> "unhealthy",
             database |-> "disconnected" ]
      ELSE [ op |-> "health", status |-> 200, detail |-> "healthy", database |-> "connected" ]

HealthCheckHandler(env) ==
  LET conn == GetDbConnection(env)
  IN  IF conn.raised # "none" \/ conn.connection = "None"
      THEN \* except Exception: the HTTPException, or None.close()'s AttributeError
           [ op |-> "health", status |-> 200, detail |-> "unhealthy",
             database |-> "disconnected" ]
      ELSE [ op |-> "health", status |-> 200, detail |-> "healthy", database |-> "connected" ]

(***************************************************************************)
(* State.  The client issues one call at a time and reads its response     *)
(* before the next call.                                                   *)
(***************************************************************************)
VARIABLES
  transactions,   \* committed rows of table transactions
  budgets,        \* committed rows of table budgets
  categories,     \* committed rows of table categories
  inserted,       \* history: id, name, type and created_at of every category as first inserted
  response,       \* the response the client holds, NoResponse once read
  prior,          \* the committed storage when the call of the held response began
  situation,      \* the environment's situation during that call
  snap,           \* << the snapshot of the last /backup call >>, NoSnap when dropped
  done,           \* how many /backup calls of snap have committed in a row
  conns,          \* the /backup calls in flight on concurrent connections
  workload        \* which input pool the client draws its snapshots from

vars ==
  << transactions, budgets, categories, inserted, response, prior, situation, snap, done,
     conns, workload >>

NoSnap == << >>

NoResponse == [ op |-> "none", status |-> 0, detail |-> "none" ]

Db ==
  [ transactions |-> transactions, budgets |-> budgets, categories |-> categories,
    inserted |-> inserted ]

InitStorage ==
  /\ transactions = {}
  /\ budgets = {}
  /\ categories = {}
  /\ inserted = {}
  /\ response = NoResponse
  /\ prior = EmptyDb
  /\ situation = "none"
  /\ snap = NoSnap
  /\ done = 0

Connections == {"A", "B"}

\* a connection with no call in flight
Idle == [ pc |-> "idle" ]

Init ==
  /\ InitStorage
  /\ conns = [ p \in Connections |-> Idle ]
  /\ workload \in Workloads

Store(db) ==
  /\ transactions' = db.transactions
  /\ budgets' = db.budgets
  /\ categories' = db.categories
  /\ inserted' = db.inserted

\* POST /backup with a snapshot the client has just composed
Backup(data, env, failAt) ==
  /\ response = NoResponse
  /\ snap = NoSnap
  /\ LET r == BackupHandler(Db, data, env, failAt)
     IN  /\ Store(r.db)
         /\ response' = r.response
         /\ done' = IF r.response.status = 200 THEN 1 ELSE 0
  /\ snap' = << data >>
  /\ prior' = Db
  /\ situation' = env
  /\ UNCHANGED << conns, workload >>

\* POST /backup again with the snapshot that was committed last
BackupAgain(env, failAt) ==
  /\ response = NoResponse
  /\ snap # NoSnap
  /\ done < MaxCalls
  /\ LET r == BackupHandler(Db, snap[1], env, failAt)
     IN  /\ Store(r.db)
         /\ response' = r.response
         /\ done' = IF r.response.status = 200 THEN done + 1 ELSE done
  /\ prior' = Db
  /\ situation' = env
  /\ UNCHANGED << snap, conns, workload >>

\* GET /restore
Restore(env, fails) ==
  /\ response = NoResponse
  /\ response' \in RestoreHandler(Db, env, fails)
  /\ prior' = Db
  /\ situation' = env
  /\ UNCHANGED << transactions, budgets, categories, inserted, snap, done, conns, workload >>

\* GET /health
HealthCheck(env) ==
  /\ response = NoResponse
  /\ response' = HealthCheckHandler(env)
  /\ prior' = Db
  /\ situation' = env
  /\ UNCHANGED << transactions, budgets, categories, inserted, snap, done, conns, workload >>

\* the client has read the response; it drops a snapshot whose backup failed
Read ==
  /\ response # NoResponse
  /\ response' = NoResponse
  /\ prior' = EmptyDb
  /\ situation' = "none"
  /\ snap' = IF done = 0 THEN NoSnap ELSE snap
  /\ UNCHANGED << transactions, budgets, categories, inserted, done, conns, workload >>

\* the client changes its local data: the next snapshot is a new one
Forget ==
  /\ response = NoResponse
  /\ snap # NoSnap
  /\ snap' = NoSnap
  /\ done' = 0
  /\ UNCHANGED << transactions, budgets, categories, inserted, response, prior, situation,
                  conns, workload >>

Next ==
  \/ /\ response = NoResponse /\ snap = NoSnap
     /\ \E data \in Snapshots(workload) :
           \E s \in BackupSituations(data) : Backup(data, s[1], s[2])
  \/ /\ response = NoResponse /\ snap # NoSnap
     /\ \E s \in BackupSituations(snap[1]) : BackupAgain(s[1], s[2])
  \/ \E s \in RestoreSituations : Restore(s[1], s[2])
  \/ \E env \in Envs : HealthCheck(env)
  \/ Read
  \/ Forget

Spec == Init /\ [][Next]_vars

(***************************************************************************)
(* Concurrent /backup calls.  Every call has its own connection, hence its *)
(* own transaction.  The storage engine locks the index entries a          *)
(* statement touches (PRIMARY KEY and UNIQUE) until the transaction ends:  *)
(* a statement that needs an entry another connection holds waits, and a   *)
(* wait may end in an Error (lock wait timeout, deadlock victim).  What a  *)
(* connection has written is seen by the others when it commits.           *)
(***************************************************************************)
TableNames == {"transactions", "budgets", "categories", "inserted"}

\* the index entries of a row: PRIMARY KEY and UNIQUE columns of its table
KeysOf(table, row) ==
  CASE table = "transactions" -> { <<table, "id", row.id>> }
    [] table = "budgets" -> { <<table, "id", row.id>>, <<table, "category", row.category>> }
    [] table = "categories" -> { <<table, "id", row.id>>, <<table, "name", row.name>> }

\* what connection p sees: the committed rows, less those it deleted, plus its own
View(p) ==
  [ t \in TableNames |-> (Db[t] \ conns[p].del[t]) \cup conns[p].ins[t] ]

\* the index entries statement st locks when run on view, giving after
LocksOf(view, st, after) ==
  LET t == st.table
      gone == view[t] \ after[t]
      new  == after[t] \ view[t]
      hit  == IF t = "categories"
              THEN IF \E x \in view[t] : x.id = st.rec.id
                   THEN { x \in view[t] : x.id = st.rec.id }
                   ELSE { x \in view[t] : x.name = st.rec.name }
              ELSE {}
  IN  UNION { KeysOf(t, x) : x \in gone \cup new \cup hit }

HeldByNobody(p) == {}

HeldByOthers(p) ==
  UNION { IF conns[q].pc = "open" THEN conns[q].locks ELSE {} : q \in Connections \ {p} }

\* POST /backup arrives on connection p: get_db_connection, cursor()
Open(p, data) ==
  /\ conns[p].pc = "idle"
  /\ conns' = [ conns EXCEPT ![p] =
                  [ pc |-> "open", data |-> data, at |-> 1, locks |-> {},
                    del |-> [ t \in TableNames |-> {} ],
                    ins |-> [ t \in TableNames |-> {} ] ] ]
  /\ UNCHANGED << transactions, budgets, categories, inserted, response, prior, situation,
                  snap, done, workload >>

\* cursor.execute of the next statement of p's call
ExecuteNext(p) ==
  /\ conns[p].pc = "open"
  /\ conns[p].at <= Len(Statements(conns[p].data))
  /\ LET st    == Statements(conns[p].data)[conns[p].at]
         view  == View(p)
         after == Execute(view, st)
         need  == LocksOf(view, st, after)
     IN  /\ ~Raises(st)
         /\ need \cap HeldByOthers(p) = {}
         /\ conns' = [ conns EXCEPT ![p].at = @ + 1,
                                    ![p].locks = @ \cup need,
                                    ![p].del = [ t \in TableNames |-> Db[t] \ after[t] ],
                                    ![p].ins = [ t \in TableNames |-> after[t] \ Db[t] ] ]
  /\ UNCHANGED << transactions, budgets, categories, inserted, response, prior, situation,
                  snap, done, workload >>

\* connection.commit() of p's call
CommitCall(p) ==
  /\ conns[p].pc = "open"
  /\ conns[p].at = Len(Statements(conns[p].data)) + 1
  /\ Store(Commit(Db, View(p)))
  /\ conns' = [ conns EXCEPT ![p] = Idle ]
  /\ UNCHANGED << response, prior, situation, snap, done, workload >>

\* an Error ends p's call: connection.rollback()
FailCall(p) ==
  /\ conns[p].pc = "open"
  /\ Store(Rollback(Db, View(p)))
  /\ conns' = [ conns EXCEPT ![p] = Idle ]
  /\ UNCHANGED << response, prior, situation, snap, done, workload >>

NextConcurrent ==
  \/ \E p \in Connections :
        /\ conns[p].pc = "idle"
        /\ \E data \in Snapshots(workload) : Open(p, data)
  \/ \E p \in Connections : ExecuteNext(p)
  \/ \E p \in Connections : CommitCall(p)
  \/ \E p \in Connections : FailCall(p)

InitConcurrent ==
  /\ InitStorage
  /\ conns = [ p \in Connections |-> Idle ]
  /\ workload \in {"XT", "XB", "XC"}

SpecConcurrent == InitConcurrent /\ [][NextConcurrent]_vars

(***************************************************************************)
(* Vocabulary of the properties.  A state that holds a response is the     *)
(* state right after a call: prior is the storage before it, the tables    *)
(* are the storage after it.                                               *)
(***************************************************************************)
Ids(rows) == { r.id : r \in rows }

Tables(db) ==
  [ transactions |-> db.transactions, budgets |-> db.budgets, categories |-> db.categories ]

\* the held response is that of a /backup call that committed
BackupCommitted == response.op = "backup" /\ response.status = 200

\* the held response is that of a /backup call that failed
BackupFailed == response.op = "backup" /\ response.status # 200

\* the snapshot of the /backup call (where the held response is a /backup's)
Data == snap[1]

\* the statements of that call and the storage the connection saw after k of them
Stmts == Statements(Data)

ViewAfter(k) == ExecuteAll(prior, Stmts, k)

(***************************************************************************)
(* C1.  A Backup that submits a Budget with an unused id b2 for a category *)
(* C that a stored Budget b1 already has fails entirely: it returns a      *)
(* failure and leaves the storage as it was.                               *)
(***************************************************************************)
\* budget i of the call takes the category of the stored row r under an unused id
TakesCategoryOf(i, r) ==
  /\ Data.budgets[i].category = r.category
  /\ Data.budgets[i].id \notin Ids(prior.budgets)

C2_AllOrNothing ==
  /\ BackupFailed => Db = prior
  /\ BackupCommitted => Db = ViewAfter(Len(Stmts))

\* the call failed on a category, after its transactions and budgets had run
C2_Witness ==
  /\ BackupFailed
  /\ situation = "connected"
  /\ Len(Data.transactions) > 0
  /\ Len(Data.budgets) > 0
  /\ \E i \in DOMAIN Data.categories : CategoryRaises(Data.categories[i])
  /\ FirstRaising(Stmts) > Len(Data.transactions) + Len(Data.budgets)
  /\ Tables(ViewAfter(FirstRaising(Stmts) - 1)) # Tables(prior)
  /\ Db = prior

(***************************************************************************)
(* C3.  Every Category statement of a Backup: when no stored row has its   *)
(* name, a row with the submitted fields is inserted; when a stored row    *)
(* has its name, whatever the submitted id, that row's icon becomes the    *)
(* submitted icon, and nothing else changes.                               *)
(***************************************************************************)
\* the positions of the category statements among the call's statements
CategoryStmts == { k \in DOMAIN Stmts : Stmts[k].table = "categories" }

\* table categories before and after statement k of the committed call
CategoriesBefore(k) == ViewAfter(k - 1).categories

CategoriesAfter(k) ==
  IF k = Len(Stmts) THEN categories ELSE ViewAfter(k).categories

WithIcon(rows, hit, icon) ==
  { IF x \in hit THEN [x EXCEPT !.icon = icon] ELSE x : x \in rows }

\* the upsert keyed on the name alone
KeyedOnName(before, c, after) ==
  IF \E x \in before : x.name = c.name
  THEN after = WithIcon(before, { x \in before : x.name = c.name }, c.icon)
  ELSE after = before \cup {c}

C3_UpsertKeyedOnName ==
  BackupCommitted =>
    \A k \in CategoryStmts :
      KeyedOnName(CategoriesBefore(k), Stmts[k].rec, CategoriesAfter(k))

\* C3 as the code has it: the upsert is keyed on the name unless the
\* submitted id is that of a stored row, and then that row (whatever its
\* name) gets the submitted icon and nothing else changes.
C3_UpsertKeyedOnIdThenName ==
  BackupCommitted =>
    \A k \in CategoryStmts :
      LET c == Stmts[k].rec
          before == CategoriesBefore(k)
      IN  IF \E x \in before : x.id = c.id
          THEN CategoriesAfter(k) = WithIcon(before, { x \in before : x.id = c.id }, c.icon)
          ELSE KeyedOnName(before, c, CategoriesAfter(k))

\* a category arrives under an unused id and a stored name, with another icon
\* and another type
C3_Witness ==
  /\ BackupCommitted
  /\ done = 1
  /\ Len(Data.categories) = 1
  /\ \E x \in prior.categories :
       /\ x.name = Data.categories[1].name
       /\ Data.categories[1].id \notin Ids(prior.categories)
       /\ x.icon # Data.categories[1].icon
       /\ x.type # Data.categories[1].type
       /\ [x EXCEPT !.icon = Data.categories[1].icon] \in categories

RestoredAfterBackup ==
  /\ response.op = "restore"
  /\ response.status = 200
  /\ snap # NoSnap
  /\ done >= 1

Range(seq) == { seq[i] : i \in DOMAIN seq }

\* the row returned for a submitted number with all its digits
SameTransaction(t, row) ==
  /\ [ t EXCEPT !.amount = row.amount ] = row
  /\ SameNumber(t.amount, row.amount)

SameBudget(b, row) ==
  /\ [ b EXCEPT !.monthly_limit = row.monthly_limit ] = row
  /\ SameNumber(b.monthly_limit, row.monthly_limit)

\* the icon the snapshot submits last for a name
LatestIcon(name) ==
  LET at == { i \in DOMAIN Data.categories : Data.categories[i].name = name }
  IN  Data.categories[CHOOSE i \in at : \A j \in at : j <= i].icon

\* row is the restored category of that name: the given icon, and the type
\* and created_at the history recorded at the first insert of the name
RestoredCategory(row, name, icon) ==
  /\ row.name = name
  /\ row.icon = icon
  /\ \E h \in inserted :
       h.name = name /\ h.type = row.type /\ h.created_at = row.created_at

C5_RoundTrip ==
  RestoredAfterBackup =>
    /\ \A t \in Range(Data.transactions) :
         \E row \in Range(response.transactions) : SameTransaction(t, row)
    /\ \A b \in Range(Data.budgets) :
         \E row \in Range(response.budgets) : SameBudget(b, row)
    /\ \A c \in Range(Data.categories) :
         \E row \in Range(response.categories) :
            RestoredCategory(row, c.name, LatestIcon(c.name))

\* d is a rounded to two fractional digits, halves upwards
RoundedToCents(a, d) ==
  LET diff == (a.w - d.w) * 1000 + a.f - 10 * d.c
  IN  diff >= -5 /\ diff < 5

\* no two records of a sequence of the snapshot share the key
Distinct(seq, key) ==
  \A i, j \in DOMAIN seq : i # j => seq[i][key] # seq[j][key]

NoRepeats(data) ==
  /\ Distinct(data.transactions, "id")
  /\ Distinct(data.budgets, "id")
  /\ Distinct(data.budgets, "category")
  /\ Distinct(data.categories, "id")
  /\ Distinct(data.categories, "name")

\* no category of the snapshot carries the id of a row of rows with another name
NoForeignId(data, rows) ==
  \A c \in Range(data.categories) : ~ \E x \in rows : x.id = c.id /\ x.name # c.name

\* C5 as the code has it: for a snapshot that repeats no id, no Budget
\* category and no Category name, and none of whose Categories carries the
\* id of a stored category of another name, the round trip holds with the
\* amounts and limits rounded to two fractional digits.
C5_RoundTripOfDistinctRecords ==
  (RestoredAfterBackup /\ NoRepeats(Data) /\ NoForeignId(Data, categories)) =>
    /\ \A t \in Range(Data.transactions) :
         \E row \in Range(response.transactions) :
            /\ [ t EXCEPT !.amount = row.amount ] = row
            /\ RoundedToCents(t.amount, row.amount)
    /\ \A b \in Range(Data.budgets) :
         \E row \in Range(response.budgets) :
            /\ [ b EXCEPT !.monthly_limit = row.monthly_limit ] = row
            /\ RoundedToCents(b.monthly_limit, row.monthly_limit)
    /\ \A c \in Range(Data.categories) :
         \E row \in Range(response.categories) : RestoredCategory(row, c.name, c.icon)

\* two transactions came back, one of them with its amount rounded
C5_Witness ==
  /\ RestoredAfterBackup
  /\ NoRepeats(Data)
  /\ Len(Data.transactions) = 2
  /\ \E t \in Range(Data.transactions) :
       \E row \in Range(response.transactions) :
          row.id = t.id /\ ~SameNumber(t.amount, row.amount)

(***************************************************************************)
(* C6.  Idempotence: Backup(S) twice in a row yields the same Restore      *)
(* result as Backup(S) once, for every snapshot S, repeats included.       *)
(***************************************************************************)
\* the held response is that of a committed /backup of a snapshot whose
\* previous /backup had committed too
CommittedAgain == BackupCommitted /\ done >= 2

C6_Idempotent == CommittedAgain => RestoreResults(Db) = RestoreResults(prior)

\* two categories of the snapshot carry one id under two names
IdUnderTwoNames(data) ==
  \E c, d \in Range(data.categories) : c.id = d.id /\ c.name # d.name

\* C6 as the code has it: idempotence holds for every snapshot in which no
\* two Categories carry the same id under different names.
C6_IdempotentUnlessIdRenamed ==
  (CommittedAgain /\ ~IdUnderTwoNames(Data)) =>
     RestoreResults(Db) = RestoreResults(prior)

\* a snapshot that repeats a category name was committed twice
C6_Witness ==
  /\ CommittedAgain
  /\ ~IdUnderTwoNames(Data)
  /\ ~Distinct(Data.categories, "name")
  /\ Len(Data.categories) >= 2
  /\ \E c \in Range(Data.categories) : \E x \in categories : x.name = c.name /\ x.id # c.id

(***************************************************************************)
(* C7.  A successful Restore returns every stored Transaction, Budget and  *)
(* Category exactly once, the Transactions by date descending: of two      *)
(* returned transactions the one with the later date comes first.          *)
(***************************************************************************)
ExactlyOnce(seq, rows) ==
  /\ Range(seq) = rows
  /\ Len(seq) = Cardinality(rows)

C7_RestoreCompleteAndOrdered ==
  (response.op = "restore" /\ response.status = 200) =>
    /\ ExactlyOnce(response.transactions, transactions)
    /\ ExactlyOnce(response.budgets, budgets)
    /\ ExactlyOnce(response.categories, categories)
    /\ \A i, j \in DOMAIN response.transactions :
         DayNumber(response.transactions[i].date) > DayNumber(response.transactions[j].date)
           => i < j

\* a transaction of 2024 came back before one of 2023
C7_Witness ==
  /\ response.op = "restore"
  /\ response.status = 200
  /\ Len(response.transactions) = 2
  /\ response.transactions[1].date = <<2,0,2,4,0,1,0,1>>
  /\ response.transactions[2].date = <<2,0,2,3,1,2,3,1>>

(***************************************************************************)
(* C8.  HealthCheck never raises and never changes the storage: it returns *)
(* a status, healthy/connected only when a connection was established and  *)
(* unhealthy/disconnected otherwise; Backup and Restore return a failure   *)
(* response in the situations where no connection is established.          *)
(***************************************************************************)
C8_HealthIsAStatus ==
  /\ response.op = "health" =>
       /\ response.status = 200
       /\ Db = prior
       /\ \/ /\ situation = "connected"
             /\ response.detail = "healthy"
             /\ response.database = "connected"
          \/ /\ situation # "connected"
             /\ response.detail = "unhealthy"
             /\ response.database = "disconnected"
  /\ (response.op \in {"backup", "restore"} /\ situation # "connected") =>
       /\ response.status = 500
       /\ Db = prior

\* get_db_connection returned no connection object, over a storage with rows
C8_Witness ==
  /\ response.op = "health"
  /\ situation = "not_connected"
  /\ response.detail = "unhealthy"
  /\ transactions # {}

(***************************************************************************)
(* C9.  The order of the records inside a snapshot does not affect the     *)
(* result: Backup of any permutation of the three sequences of S leaves    *)
(* the storage in the same state as Backup of S.                           *)
(***************************************************************************)
Reordered(seq) ==
  { [ i \in DOMAIN seq |-> seq[f[i]] ] : f \in Permutations(DOMAIN seq) }

Reorderings(data) ==
  { BackupData(ts, bs, cs) : ts \in Reordered(data.transactions),
                             bs \in Reordered(data.budgets),
                             cs \in Reordered(data.categories) }

\* the storage a /backup of data leaves when nothing fails
StorageAfter(db, data) ==
  Tables(BackupHandler(db, data, "connected", Len(Statements(data)) + 2).db)

C9_OrderIrrelevant ==
  BackupCommitted =>
    \A other \in Reorderings(Data) : StorageAfter(prior, other) = Tables(Db)

\* C9 as the code has it: the order is irrelevant for a snapshot that
\* repeats no id, no Budget category and no Category name and none of whose
\* Categories carries the id of a stored category of another name.
C9_OrderIrrelevantForDistinctRecords ==
  (BackupCommitted /\ NoRepeats(Data) /\ NoForeignId(Data, prior.categories)) =>
    \A other \in Reorderings(Data) : StorageAfter(prior, other) = Tables(Db)

\* two budgets that swap the categories of the two stored budgets
C9_Witness ==
  /\ BackupCommitted
  /\ NoRepeats(Data)
  /\ Len(Data.budgets) = 2
  /\ Cardinality(prior.budgets) = 2
  /\ \A b \in Range(Data.budgets) :
       \E x \in prior.budgets : x.id = b.id /\ x.category # b.category

(***************************************************************************)
(* C10.  After any interleaving of Backup calls on concurrent connections, *)
(* committed or failed, one after the other or overlapping, no two         *)
(* committed Transaction rows share an id, no two Budget rows share an id  *)
(* or a category, and no two Category rows share an id or a name.          *)
(***************************************************************************)
Unique(rows, key) == \A x, y \in rows : x[key] = y[key] => x = y

UniqueKeys(db) ==
  /\ Unique(db.transactions, "id")
  /\ Unique(db.budgets, "id")
  /\ Unique(db.budgets, "category")
  /\ Unique(db.categories, "id")
  /\ Unique(db.categories, "name")

C10_UniqueKeys == UniqueKeys(Db)

\* two calls overlap: one has deleted the committed budget of a category and
\* written its own, not yet committed; the other's next statement writes a
\* budget of that category under a third id
C10_Witness ==
  \E p, q \in Connections :
    /\ p # q
    /\ conns[p].pc = "open" /\ conns[q].pc = "open"
    /\ conns[q].at <= Len(Statements(conns[q].data))
    /\ LET st == Statements(conns[q].data)[conns[q].at]
       IN  /\ st.table = "budgets"
           /\ \E x \in conns[p].ins.budgets : \E y \in conns[p].del.budgets :
                /\ x.category = st.rec.category /\ x.id # st.rec.id
                /\ y.category = x.category /\ y.id # x.id

====
